---- MODULE Spec2Model ----
(***************************************************************************)
(* Grammar-scoring-engine: transcript cleaner, submission path, model      *)
(* trainer and grammar feature extractor, as state machines.               *)
(*                                                                         *)
(* A text is a sequence of one-character strings, so that whitespace       *)
(* normalisation, lowercasing, splitting and joining are computed the way  *)
(* src/src/text_cleaning.py computes them.                                 *)
(***************************************************************************)
EXTENDS Integers, Sequences, FiniteSets, TLC

VARIABLES
    text,       \* clean_transcript's argument: [none, chars]
    result,     \* (cleaned_text, stats) of the first clean_transcript call
    again,      \* (cleaned_text, stats) of clean_transcript(result.text)
    passes,     \* number of clean_transcript calls made so far
    testAudio,  \* stems of the .wav files in data/test_audio
    asrCache,   \* data/asr_cache/asr_test.csv: [exists, rows]
    modelFile,  \* the artifacts stored at model_path
    submission, \* submission.csv: [exists, rows]
    rawPred,    \* main's y_pred before np.clip, one value per row
    outcome,    \* how the last run of main ended: "none", "saved", "raised"
    coefTable,  \* what compute_feature_importance(stored artifacts) did
    trainAudio, \* stems of the .wav files in data/train_audio
    trainCache, \* data/asr_cache/asr_train.csv: [exists, rows]
    asrCall,    \* the last transcribe_split(split="train") call: [n, ...]
    asrReport,  \* what step 2 of train_baseline.py did: [outcome, ...]
    X,          \* the trainer's feature table: [columns, rows]
    y,          \* the trainer's label sequence
    n_splits,   \* cross_validate_baseline's n_splits argument (0 for None)
    trained,    \* what train_baseline_model(X, y) did: [outcome, artifacts]
    cv,         \* what cross_validate_baseline(X, y) did: [outcome, folds]
    cvAgain,    \* what a second cross_validate_baseline(X, y) call did
    importance, \* what compute_feature_importance(trained artifacts) did
    testPred,   \* what the prediction path did with the trained artifacts
    probe,      \* what a feature family or a band is computed from: [kind, ...]
    computed,   \* what was computed from probe: [outcome, features or band]
    engines,    \* what is installed: [language_tool, spacy, started, loaded]
    extractor,  \* the GrammarFeatureExtractor instance: [tool, nlp]
    texts,      \* the argument of the last transform call
    table,      \* what the last transform call did: [outcome, columns, rows]
    calls       \* number of transform calls made so far

cleanVars == <<text, result, again, passes>>
asrVars == <<trainAudio, trainCache, asrCall, asrReport>>

submitVars ==
    <<testAudio, asrCache, modelFile, submission, rawPred, outcome, coefTable,
      asrVars>>

trainVars == <<X, y, n_splits, trained, cv, cvAgain, importance, testPred>>

featVars == <<probe, computed>>

extractVars == <<engines, extractor, texts, table, calls>>

vars == <<cleanVars, submitVars, trainVars, featVars, extractVars>>

(***************************************************************************)
(* Bounds of the model.                                                    *)
(***************************************************************************)
\* longest raw transcript, in words
MaxTokens == 4
\* most .wav files in data/test_audio
MaxTestFiles == 2
\* most rows of the trainer's feature table, and most labels
MaxRows == 5

(***************************************************************************)
(* Characters and strings.                                                 *)
(***************************************************************************)
\* characters matched by the regex class \s and stripped by str.strip()
Whitespace == {" ", "\t", "\n"}

\* the lower-case form of each upper-case letter
LowerTable ==
    ("A" :> "a") @@ ("B" :> "b") @@ ("C" :> "c") @@ ("D" :> "d") @@
    ("E" :> "e") @@ ("F" :> "f") @@ ("G" :> "g") @@ ("H" :> "h") @@
    ("I" :> "i") @@ ("J" :> "j") @@ ("K" :> "k") @@ ("L" :> "l") @@
    ("M" :> "m") @@ ("N" :> "n") @@ ("O" :> "o") @@ ("P" :> "p") @@
    ("Q" :> "q") @@ ("R" :> "r") @@ ("S" :> "s") @@ ("T" :> "t") @@
    ("U" :> "u") @@ ("V" :> "v") @@ ("W" :> "w") @@ ("X" :> "x") @@
    ("Y" :> "y") @@ ("Z" :> "z")

UpperLetters == DOMAIN LowerTable

\* str.lower() on one character
LowerChar(c) == IF c \in UpperLetters THEN LowerTable[c] ELSE c

lowercase(s) == [i \in 1..Len(s) |-> LowerChar(s[i])]

(***************************************************************************)
(* Numbers.  A float is an exact fraction [num, den] in lowest terms with  *)
(* den > 0; a fraction with den = 0 stands for the ZeroDivisionError that  *)
(* the division raises.                                                    *)
(***************************************************************************)
RECURSIVE Gcd(_, _)
Gcd(a, b) == IF b = 0 THEN a ELSE Gcd(b, a % b)

\* a / b, for b >= 0
Div(a, b) ==
    IF b = 0 THEN [num |-> a, den |-> 0]
    ELSE [num |-> a \div Gcd(a, b), den |-> b \div Gcd(a, b)]

Max(a, b) == IF a >= b THEN a ELSE b

Abs(a) == IF a < 0 THEN 0 - a ELSE a

RECURSIVE SumSeq(_)
SumSeq(s) == IF s = <<>> THEN 0 ELSE Head(s) + SumSeq(Tail(s))

\* the greatest common divisor of g and the numbers of s
RECURSIVE GcdSeq(_, _)
GcdSeq(s, g) ==
    IF s = <<>> THEN g ELSE GcdSeq(Tail(s), Gcd(g, Abs(Head(s))))

RECURSIVE LStrip(_)
LStrip(s) ==
    IF s # <<>> /\ Head(s) \in Whitespace THEN LStrip(Tail(s)) ELSE s

RECURSIVE RStrip(_)
RStrip(s) ==
    IF s # <<>> /\ s[Len(s)] \in Whitespace
    THEN RStrip(SubSeq(s, 1, Len(s) - 1))
    ELSE s

\* re.sub(r"\s+", " ", s): every maximal whitespace run becomes one space
RECURSIVE SubWhitespaceRuns(_)
SubWhitespaceRuns(s) ==
    IF s = <<>> THEN <<>>
    ELSE IF Head(s) \in Whitespace
         THEN <<" ">> \o SubWhitespaceRuns(LStrip(Tail(s)))
         ELSE <<Head(s)>> \o SubWhitespaceRuns(Tail(s))

normalise_whitespace(s) == RStrip(LStrip(SubWhitespaceRuns(s)))

\* str.split(" "): cut at every single space; "" gives [""]
RECURSIVE SplitAcc(_, _)
SplitAcc(s, cur) ==
    IF s = <<>> THEN <<cur>>
    ELSE IF Head(s) = " "
         THEN <<cur>> \o SplitAcc(Tail(s), <<>>)
         ELSE SplitAcc(Tail(s), Append(cur, Head(s)))

split(s) == SplitAcc(s, <<>>)

\* " ".join(tokens)
RECURSIVE join(_)
join(tokens) ==
    IF tokens = <<>> THEN <<>>
    ELSE IF Len(tokens) = 1 THEN tokens[1]
         ELSE tokens[1] \o <<" ">> \o join(Tail(tokens))

(***************************************************************************)
(* The cleaner.                                                            *)
(***************************************************************************)
NON_LEXICAL_FILLERS ==
    { <<"u", "h">>, <<"u", "m">>, <<"e", "r", "m">>, <<"e", "h">>,
      <<"u", "h", "m">> }

CleaningStats ==
    [num_tokens_raw |-> 0, num_tokens_clean |-> 0, fillers_removed |-> 0,
     repetitions_collapsed |-> 0, false_starts_trimmed |-> 0]

\* Each helper below returns the new token list and the updated stats.

\* a filler pass that counts a filler but forgets to skip it
RECURSIVE fillers_counted_not_dropped(_, _)
fillers_counted_not_dropped(tokens, stats) ==
    IF tokens = <<>> THEN [tokens |-> <<>>, stats |-> stats]
    ELSE LET rest == fillers_counted_not_dropped(Tail(tokens), stats)
             n    == IF Head(tokens) \in NON_LEXICAL_FILLERS THEN 1 ELSE 0
         IN  [tokens |-> <<Head(tokens)>> \o rest.tokens,
              stats |-> [rest.stats EXCEPT !.fillers_removed = @ + n]]

RECURSIVE remove_non_lexical_fillers(_, _)
remove_non_lexical_fillers(tokens, stats) ==
    IF tokens = <<>> THEN [tokens |-> <<>>, stats |-> stats]
    ELSE IF Head(tokens) \in NON_LEXICAL_FILLERS
         THEN remove_non_lexical_fillers(Tail(tokens),
                  [stats EXCEPT !.fillers_removed = @ + 1])
         ELSE LET rest == remove_non_lexical_fillers(Tail(tokens), stats)
              IN  [tokens |-> <<Head(tokens)>> \o rest.tokens,
                   stats |-> rest.stats]

\* a collapse that compares with the first kept token, not the last
RECURSIVE CollapseAgainstFirst(_, _, _)
CollapseAgainstFirst(todo, cleaned, stats) ==
    IF todo = <<>> THEN [tokens |-> cleaned, stats |-> stats]
    ELSE IF Head(todo) = cleaned[1]
         THEN CollapseAgainstFirst(Tail(todo), cleaned,
                  [stats EXCEPT !.repetitions_collapsed = @ + 1])
         ELSE CollapseAgainstFirst(Tail(todo), Append(cleaned, Head(todo)), stats)

RECURSIVE CollapseLoop(_, _, _)
CollapseLoop(todo, cleaned, stats) ==
    IF todo = <<>> THEN [tokens |-> cleaned, stats |-> stats]
    ELSE IF Head(todo) = cleaned[Len(cleaned)]
         THEN CollapseLoop(Tail(todo), cleaned,
                  [stats EXCEPT !.repetitions_collapsed = @ + 1])
         ELSE CollapseLoop(Tail(todo), Append(cleaned, Head(todo)), stats)

\* a collapse that drops a token seen anywhere before, not only just before
RECURSIVE CollapseSeenLoop(_, _, _)
CollapseSeenLoop(todo, cleaned, stats) ==
    IF todo = <<>> THEN [tokens |-> cleaned, stats |-> stats]
    ELSE IF \E i \in 1..Len(cleaned) : cleaned[i] = Head(todo)
         THEN CollapseSeenLoop(Tail(todo), cleaned,
                  [stats EXCEPT !.repetitions_collapsed = @ + 1])
         ELSE CollapseSeenLoop(Tail(todo), Append(cleaned, Head(todo)), stats)

collapse_any_repetition(tokens, stats) ==
    IF tokens = <<>> THEN [tokens |-> tokens, stats |-> stats]
    ELSE CollapseSeenLoop(Tail(tokens), <<Head(tokens)>>, stats)

collapse_stutter_repetitions(tokens, stats) ==
    IF tokens = <<>> THEN [tokens |-> tokens, stats |-> stats]
    ELSE CollapseLoop(Tail(tokens), <<Head(tokens)>>, stats)

\* a trim that drops the false start without counting it
trim_uncounted(tokens, stats) ==
    IF Len(tokens) >= 2 /\ tokens[1] = tokens[2]
    THEN [tokens |-> Tail(tokens), stats |-> stats]
    ELSE [tokens |-> tokens, stats |-> stats]

\* a trim that never fires
trim_nothing(tokens, stats) == [tokens |-> tokens, stats |-> stats]

trim_simple_false_starts(tokens, stats) ==
    IF Len(tokens) >= 2 /\ tokens[1] = tokens[2]
    THEN [tokens |-> Tail(tokens),
          stats |-> [stats EXCEPT !.false_starts_trimmed = @ + 1]]
    ELSE [tokens |-> tokens, stats |-> stats]

\* the token steps with the false-start check made before filler removal
TokenStepsTrimFirst(tokens) ==
    LET s0 == [CleaningStats EXCEPT !.num_tokens_raw = Len(tokens)]
        a  == trim_simple_false_starts(tokens, s0)
        b  == remove_non_lexical_fillers(a.tokens, a.stats)
        c  == collapse_stutter_repetitions(b.tokens, b.stats)
    IN  [tokens |-> c.tokens,
         stats |-> [c.stats EXCEPT !.num_tokens_clean = Len(c.tokens)]]

\* the token-level part of clean_transcript (lines 116-123)
TokenSteps(tokens) ==
    LET s0 == [CleaningStats EXCEPT !.num_tokens_raw = Len(tokens)]
        a  == remove_non_lexical_fillers(tokens, s0)
        b  == trim_simple_false_starts(a.tokens, a.stats)
        c  == collapse_stutter_repetitions(b.tokens, b.stats)
    IN  [tokens |-> c.tokens,
         stats |-> [c.stats EXCEPT !.num_tokens_clean = Len(c.tokens)]]

\* "not text": None and "" are both falsy
Falsy(t) == t.none \/ t.chars = <<>>

\* a cleaner that lowercases the joined output instead of the input
clean_lowercase_last(t) ==
    IF Falsy(t) THEN [text |-> <<>>, stats |-> CleaningStats]
    ELSE LET r == TokenSteps(split(normalise_whitespace(t.chars)))
         IN  [text |-> lowercase(normalise_whitespace(join(r.tokens))),
              stats |-> r.stats]

\* a cleaner without the early return for a falsy argument
clean_no_early_return(t) ==
    LET r == TokenSteps(split(lowercase(normalise_whitespace(t.chars))))
    IN  [text |-> normalise_whitespace(join(r.tokens)), stats |-> r.stats]

clean_transcript(t) ==
    IF Falsy(t) THEN [text |-> <<>>, stats |-> CleaningStats]
    ELSE LET normalized == normalise_whitespace(t.chars)
             lowered    == lowercase(normalized)
             r          == TokenSteps(split(lowered))
         IN  [text |-> normalise_whitespace(join(r.tokens)), stats |-> r.stats]

(***************************************************************************)
(* Inputs of the cleaner: up to MaxTokens words laid out with whitespace.  *)
(***************************************************************************)
Words ==
    { <<"u", "h">>, <<"U", "m">>, <<"i">>, <<"I">>, <<"g", "o">>,
      <<"h", "e">> }

Layouts ==
    { [lead |-> <<>>, gap |-> <<" ">>, trail |-> <<>>],
      [lead |-> <<" ">>, gap |-> <<" ", " ">>, trail |-> <<"\n">>],
      [lead |-> <<>>, gap |-> <<"\t">>, trail |-> <<" ">>] }

RECURSIVE JoinWith(_, _)
JoinWith(ws, gap) ==
    IF ws = <<>> THEN <<>>
    ELSE IF Len(ws) = 1 THEN ws[1]
         ELSE ws[1] \o gap \o JoinWith(Tail(ws), gap)

Layout(ws, l) == l.lead \o JoinWith(ws, l.gap) \o l.trail

WordSeqs == UNION { [1..n -> Words] : n \in 0..MaxTokens }

NoneText == [none |-> TRUE, chars |-> <<>>]

RawTexts ==
    {NoneText} \cup
    { [none |-> FALSE, chars |-> Layout(ws, l)] : ws \in WordSeqs, l \in Layouts }

NoResult == [text |-> <<>>, stats |-> CleaningStats]

\* the variables of the cleaner while another component runs
CleanIdle ==
    /\ text = NoneText
    /\ result = NoResult
    /\ again = NoResult
    /\ passes = 0

NoFile == [exists |-> FALSE, rows |-> <<>>]

\* the variables of the submission path while another component runs
SubmitIdle ==
    /\ testAudio = {}
    /\ asrCache = NoFile
    /\ modelFile = [feature_names |-> <<>>, slope |-> <<>>, mean |-> <<>>,
                    intercept |-> 0]
    /\ submission = NoFile
    /\ rawPred = <<>>
    /\ outcome = "none"
    /\ coefTable = [outcome |-> "none"]
    /\ trainAudio = {}
    /\ trainCache = NoFile
    /\ asrCall = [n |-> 0, outcome |-> "none"]
    /\ asrReport = [outcome |-> "none"]

NotRun == [outcome |-> "none"]

\* the variables of the trainer while another component runs
TrainIdle ==
    /\ X = [columns |-> <<>>, rows |-> <<>>]
    /\ y = <<>>
    /\ n_splits = 0
    /\ trained = NotRun
    /\ cv = NotRun
    /\ cvAgain = NotRun
    /\ importance = NotRun
    /\ testPred = NotRun

\* the variables of the feature computation while another component runs
FeatIdle ==
    /\ probe = [kind |-> "none"]
    /\ computed = NotRun

\* Python's None
None == "None"

NotConstructed == [tool |-> "unset", nlp |-> "unset"]

\* the variables of the extractor while another component runs
ExtractIdle ==
    /\ engines = [language_tool |-> "missing", spacy |-> "missing",
                  started |-> 0, loaded |-> 0]
    /\ extractor = NotConstructed
    /\ texts = <<>>
    /\ table = NotRun
    /\ calls = 0

InitClean ==
    /\ text \in RawTexts
    /\ result = NoResult
    /\ again = NoResult
    /\ passes = 0
    /\ SubmitIdle
    /\ TrainIdle
    /\ FeatIdle
    /\ ExtractIdle

\* cleaned, stats = clean_transcript(text)
Clean ==
    /\ passes = 0
    /\ result' = clean_transcript(text)
    /\ passes' = 1
    /\ UNCHANGED <<text, again, submitVars, trainVars, featVars, extractVars>>

\* clean_transcript(cleaned): a second pass over the first pass's output
CleanAgain ==
    /\ passes = 1
    /\ again' = clean_transcript([none |-> FALSE, chars |-> result.text])
    /\ passes' = 2
    /\ UNCHANGED <<text, result, submitVars, trainVars, featVars, extractVars>>

NextClean == Clean \/ CleanAgain

SpecClean == InitClean /\ [][NextClean]_vars

(***************************************************************************)
(* Vocabulary of the cleaner's properties, defined on the texts themselves *)
(* and not through the cleaner's helpers.                                  *)
(***************************************************************************)
\* str.split(): the maximal runs of non-whitespace characters of s, in order
RECURSIVE WsTokensAcc(_, _)
WsTokensAcc(s, cur) ==
    IF s = <<>> THEN (IF cur = <<>> THEN <<>> ELSE <<cur>>)
    ELSE IF Head(s) \in Whitespace
         THEN (IF cur = <<>> THEN <<>> ELSE <<cur>>) \o WsTokensAcc(Tail(s), <<>>)
         ELSE WsTokensAcc(Tail(s), Append(cur, Head(s)))

WsTokens(s) == WsTokensAcc(s, <<>>)

FillerWords == { <<"u", "h">>, <<"u", "m">>, <<"e", "r", "m">>, <<"e", "h">>,
                 <<"u", "h", "m">> }

IsFiller(tok) == lowercase(tok) \in FillerWords

NotFiller(tok) == ~IsFiller(tok)

\* the elements of s at the positions in K, in order
RECURSIVE AtPositions(_, _, _)
AtPositions(s, K, i) ==
    IF i > Len(s) THEN <<>>
    ELSE (IF i \in K THEN <<s[i]>> ELSE <<>>) \o AtPositions(s, K, i + 1)

\* positions of s holding the same token as the position before
Repeats(s) == { i \in 2..Len(s) : s[i] = s[i - 1] }

\* s with every run of equal neighbours reduced to its first element
OnePerRun(s) == AtPositions(s, (1..Len(s)) \ Repeats(s), 1)

Range(s) == { s[i] : i \in 1..Len(s) }

\* the lowercased, whitespace-tokenized input, and what is left without fillers
InputTokens == IF text.none THEN <<>> ELSE WsTokens(lowercase(text.chars))
FillerFree == SelectSeq(InputTokens, NotFiller)
OutTokens == WsTokens(result.text)

Ex_uh_i_um_was_working ==
    <<"u","h"," ","i"," ","u","m"," ","w","a","s"," ","w","o","r","k","i","n","g">>
Ex_i_was_working == <<"i"," ","w","a","s"," ","w","o","r","k","i","n","g">>
Ex_i_i_i_was_going ==
    <<"i"," ","i"," ","i"," ","w","a","s"," ","g","o","i","n","g">>
Ex_i_was_going == <<"i"," ","w","a","s"," ","g","o","i","n","g">>
Ex_um_i_i_was == <<"u","m"," ","i"," ","i"," ","w","a","s">>
Ex_i_um_i_was == <<"i"," ","u","m"," ","i"," ","w","a","s">>
Ex_he_go == <<"h","e"," ","g","o">>

CleanOf(chars) == clean_transcript([none |-> FALSE, chars |-> chars])

\* C3: for a text with no filler token and no immediately repeated token,
\* cleaning the cleaned text again returns the same text.
C3_IdempotentOnCleanText ==
    ( /\ passes = 2
      /\ \A i \in 1..Len(WsTokens(text.chars)) :
             WsTokens(text.chars)[i] \notin FillerWords
      /\ Repeats(WsTokens(text.chars)) = {} )
    => again.text = result.text

C3_Witness ==
    /\ passes = 2
    /\ Len(WsTokens(text.chars)) >= 3
    /\ \A i \in 1..Len(WsTokens(text.chars)) :
           WsTokens(text.chars)[i] \notin FillerWords
    /\ Repeats(WsTokens(text.chars)) = {}
    /\ result.text # text.chars
    /\ again.text = result.text

\* C4: exactly the tokens that are fillers after lowercasing are removed by
\* the filler step, and fillers_removed is their number in the input;
\* "uh i um was working" gives "i was working" with fillers_removed = 2.
C4_FillerRemoval ==
    /\ (passes >= 1 /\ ~text.none) =>
         /\ result.stats.fillers_removed =
                Cardinality({ i \in 1..Len(InputTokens) : IsFiller(InputTokens[i]) })
         /\ \A i \in 1..Len(OutTokens) : ~IsFiller(OutTokens[i])
         /\ Range(OutTokens) = Range(FillerFree)
    /\ CleanOf(Ex_uh_i_um_was_working).text = Ex_i_was_working
    /\ CleanOf(Ex_uh_i_um_was_working).stats.fillers_removed = 2

C4_Witness ==
    /\ passes = 1
    /\ result.stats.fillers_removed = 2
    /\ Len(OutTokens) >= 2
    /\ \E i \in 1..Len(WsTokens(text.chars)) :
           WsTokens(text.chars)[i] = <<"U", "m">>

\* C5: every run of repeated tokens of the filler-free sequence is reduced
\* to one token; a run at the very start counts one false start and the
\* rest as repetitions, any other run counts only repetitions;
\* "i i i was going" gives "i was going", one false start, one repetition.
C5_StutterCollapse ==
    /\ passes >= 1 =>
         /\ OutTokens = OnePerRun(FillerFree)
         /\ result.stats.false_starts_trimmed =
                (IF 2 \in Repeats(FillerFree) THEN 1 ELSE 0)
         /\ result.stats.repetitions_collapsed =
                Cardinality(Repeats(FillerFree) \ {2})
    /\ CleanOf(Ex_i_i_i_was_going).text = Ex_i_was_going
    /\ CleanOf(Ex_i_i_i_was_going).stats.false_starts_trimmed = 1
    /\ CleanOf(Ex_i_i_i_was_going).stats.repetitions_collapsed = 1

C5_Witness ==
    /\ passes = 1
    /\ {2, 3} \subseteq Repeats(FillerFree)
    /\ Len(OutTokens) = 2
    /\ result.stats.false_starts_trimmed = 1
    /\ result.stats.repetitions_collapsed = 1

\* C6: an empty or None transcript gives the empty text and a stats record
\* whose five counters are zero.
C6_EmptyInput ==
    (passes >= 1 /\ (text.none \/ text.chars = <<>>)) =>
        /\ result.text = <<>>
        /\ result.stats.num_tokens_raw = 0
        /\ result.stats.num_tokens_clean = 0
        /\ result.stats.fillers_removed = 0
        /\ result.stats.repetitions_collapsed = 0
        /\ result.stats.false_starts_trimmed = 0

C6_Witness == passes = 1 /\ ~text.none /\ text.chars = <<>> /\ result.text = <<>>

\* C7: the cleaned tokens are the input's lowercased tokens with some
\* deleted, in the same order, and every deleted token is a filler or equals
\* the token just before it in the filler-free sequence; "he go" stays.
C7_OnlyNoiseDeleted ==
    /\ passes >= 1 =>
         \E K \in SUBSET (1..Len(FillerFree)) :
             /\ OutTokens = AtPositions(FillerFree, K, 1)
             /\ \A i \in (1..Len(FillerFree)) \ K : i \in Repeats(FillerFree)
    /\ CleanOf(Ex_he_go).text = Ex_he_go

C7_Witness ==
    /\ passes = 1
    /\ Len(InputTokens) = 4
    /\ Len(FillerFree) = 3
    /\ Len(OutTokens) = 2
    /\ OutTokens = <<FillerFree[1], FillerFree[3]>>
    /\ text.chars # result.text

\* C8: the false-start check is made once, on the first two tokens left
\* after filler removal, and the stutter collapse scans what the trim left:
\* false_starts_trimmed is 0 or 1, and 1 exactly when the first two
\* non-filler tokens are equal; "um i i was" and "i um i was" each count one
\* false start and no repetition.
C8_StepOrder ==
    /\ passes >= 1 =>
         /\ result.stats.false_starts_trimmed \in {0, 1}
         /\ (result.stats.false_starts_trimmed = 1) <=>
                (Len(FillerFree) >= 2 /\ FillerFree[1] = FillerFree[2])
         /\ result.stats.repetitions_collapsed + result.stats.false_starts_trimmed
                = Cardinality(Repeats(FillerFree))
    /\ CleanOf(Ex_um_i_i_was).stats.false_starts_trimmed = 1
    /\ CleanOf(Ex_um_i_i_was).stats.repetitions_collapsed = 0
    /\ CleanOf(Ex_i_um_i_was).stats.false_starts_trimmed = 1
    /\ CleanOf(Ex_i_um_i_was).stats.repetitions_collapsed = 0

C8_Witness ==
    /\ passes = 1
    /\ Len(InputTokens) >= 3
    /\ InputTokens[1] = InputTokens[3]
    /\ IsFiller(InputTokens[2])
    /\ result.stats.false_starts_trimmed = 1
    /\ result.stats.repetitions_collapsed = 0

(***************************************************************************)
(* The submission path: submission/generate_submission.py, with the ASR    *)
(* cache of src/src/asr.py.  A test file is named by the number in its     *)
(* stem ("audio_1", "audio_2", ...); labels and predictions are integers.  *)
(***************************************************************************)
TestStems == 1..MaxTestFiles

\* a cell of a table: a string, or NaN
Cell(chars) == [nan |-> FALSE, s |-> chars]
NaN == [nan |-> TRUE, s |-> <<>>]

\* pandas.read_csv reads an empty field as NaN
ReadCell(c) == IF c.s = <<>> THEN NaN ELSE c

\* Series.fillna("")
FillNa(c) == IF c.nan THEN Cell(<<>>) ELSE c

\* the elements of a set of numbers in ascending order: sorted(audio_paths)
RECURSIVE Sorted(_)
Sorted(S) ==
    IF S = {} THEN <<>>
    ELSE LET m == CHOOSE a \in S : \A b \in S : a <= b
         IN  <<m>> \o Sorted(S \ {m})

\* what Whisper does with one file: a transcript, or an exception
Transcripts ==
    { <<>>, <<"h", "e", " ", "g", "o">>,
      <<" ", "U", "m", " ", "i", " ", "i", " ", "g", "o">> }

ErrorText == <<"f", "f", "m", "p", "e", "g">>

AsrOutcomes ==
    { [ok |-> TRUE, text |-> t] : t \in Transcripts } \cup
    { [ok |-> FALSE, text |-> ErrorText] }

\* the row transcribe_split builds for one audio file (lines 104-141)
AsrRow(stem, o) ==
    IF o.ok
    THEN [filename |-> stem, transcript |-> Cell(RStrip(LStrip(o.text))),
          error |-> Cell(<<>>)]
    ELSE [filename |-> stem, transcript |-> Cell(<<>>), error |-> Cell(o.text)]

\* pd.read_csv(cache_path)
ReadCsv(file) ==
    [i \in 1..Len(file.rows) |->
        [filename   |-> file.rows[i].filename,
         transcript |-> ReadCell(file.rows[i].transcript),
         error      |-> ReadCell(file.rows[i].error)]]

\* transcribe_split(audio_paths, split, overwrite=overwrite): how the call
\* ends, the returned table, the cache file afterwards and the paths given
\* to Whisper, in order.  A table of no rows has no columns and is written
\* as an empty line, which pd.read_csv rejects (EmptyDataError)
transcribe_split(audio_paths, cache, asr, overwrite) ==
    IF cache.exists /\ ~overwrite
    THEN [outcome |-> IF cache.rows = <<>> THEN "raised" ELSE "returned",
          df |-> ReadCsv(cache), cache |-> cache, transcribed |-> <<>>]
    ELSE LET paths == Sorted(audio_paths)
             rows  == [i \in 1..Len(paths) |-> AsrRow(paths[i], asr[paths[i]])]
         IN  [outcome |-> "returned", df |-> rows,
              cache |-> [exists |-> TRUE, rows |-> rows],
              transcribed |-> paths]

\* load_or_create_test_transcripts()
load_or_create_test_transcripts(audio, cache, asr) ==
    IF cache.exists
    THEN [df |-> ReadCsv(cache), cache |-> cache]
    ELSE transcribe_split(audio, cache, asr, FALSE)

\* the columns GrammarFeatureExtractor.transform returns, in its order
ExtractorColumns == <<"num_grammar_errors", "num_tokens">>

\* the numbers of matches LanguageTool may report for a text
MatchCounts == {0, 2}

\* one row of transform: matches is what LanguageTool reported
FeatureRow(cleaned, matches) ==
    [num_grammar_errors |-> matches, num_tokens |-> Len(WsTokens(cleaned))]

\* prepare_test_features(): the feature table, filename column first
prepare_test_features(df, matches) ==
    [i \in 1..Len(df) |->
        [filename |-> df[i].filename,
         feats |-> FeatureRow(
             clean_transcript([none |-> FALSE,
                               chars |-> FillNa(df[i].transcript).s]).text,
             matches[i])]]

\* test_feats[feature_names] raises KeyError for a name that is no column
HasColumns(names) ==
    \A j \in 1..Len(names) :
        \E k \in 1..Len(ExtractorColumns) : ExtractorColumns[k] = names[j]

\* test_feats[feature_names].values: the named columns, in the asked order
SelectColumns(row, names) == [j \in 1..Len(names) |-> row.feats[names[j]]]

RECURSIVE Dot(_, _, _, _)
Dot(slope, mean, x, j) ==
    IF j > Len(x) THEN 0
    ELSE slope[j] * (x[j] - mean[j]) + Dot(slope, mean, x, j + 1)

\* artifacts.model.predict(artifacts.scaler.transform(X)) for one row: the
\* standardizer and the regressor take the columns by position
Predict(artifacts, x) ==
    artifacts.intercept + Dot(artifacts.slope, artifacts.mean, x, 1)

ClipLow == 1
ClipHigh == 5

\* a clip that bounds the predictions from above only
ClipFromAbove(v) == IF v > ClipHigh THEN ClipHigh ELSE v

\* np.clip(y_pred, 1.0, 5.0)
Clip(v) == IF v < ClipLow THEN ClipLow ELSE IF v > ClipHigh THEN ClipHigh ELSE v

(***************************************************************************)
(* The table of coefficients: compute_feature_importance of src/src/       *)
(* model.py.                                                               *)
(***************************************************************************)
\* a coefficient c of the regressor is kept exactly, as
\* (num / den) * sqrt(scale) with den > 0 and scale a fraction; whole(c) is
\* the whole number c in that form
whole(c) == [num |-> c, den |-> 1, scale |-> Div(1, 1)]

\* a > b for two coefficients: by their signs, then by their squares
Greater(a, b) ==
    LET sg(c) == IF c.num > 0 THEN 1 ELSE IF c.num < 0 THEN 0 - 1 ELSE 0
        sq(c) == [num |-> c.num * c.num * c.scale.num,
                  den |-> c.den * c.den * c.scale.den]
    IN  /\ a # b
        /\ \/ sg(a) > sg(b)
           \/ sg(a) = 1 /\ sg(b) = 1
                        /\ sq(a).num * sq(b).den > sq(b).num * sq(a).den
           \/ sg(a) = 0 - 1 /\ sg(b) = 0 - 1
                        /\ sq(a).num * sq(b).den < sq(b).num * sq(a).den

\* a sort of the rows into ascending order of the coefficient
RECURSIVE SortAscending(_)
SortAscending(rows) ==
    IF rows = <<>> THEN { <<>> }
    ELSE UNION {
            { <<rows[i]>> \o rest :
                rest \in SortAscending(
                    SubSeq(rows, 1, i - 1) \o SubSeq(rows, i + 1, Len(rows))) } :
            i \in { i \in 1..Len(rows) :
                      \A j \in 1..Len(rows) :
                          ~Greater(rows[i].coefficient, rows[j].coefficient) } }

\* DataFrame.sort_values("coefficient", ascending=False): the arrangements
\* of the rows a descending sort may return.  The row taken next is one
\* whose coefficient no other row exceeds; which of several rows with equal
\* coefficients comes first is left to the sort
RECURSIVE SortDescending(_)
SortDescending(rows) ==
    IF rows = <<>> THEN { <<>> }
    ELSE UNION {
            { <<rows[i]>> \o rest :
                rest \in SortDescending(
                    SubSeq(rows, 1, i - 1) \o SubSeq(rows, i + 1, Len(rows))) } :
            i \in { i \in 1..Len(rows) :
                      \A j \in 1..Len(rows) :
                          ~Greater(rows[j].coefficient, rows[i].coefficient) } }

\* compute_feature_importance(artifacts), from the artifacts' feature names
\* and the regressor's coef_: the tables it may return
compute_feature_importance(feature_names, coefs) ==
    SortDescending([j \in 1..Len(feature_names) |->
                       [feature |-> feature_names[j], coefficient |-> coefs[j]]])

\* the artifacts a model file may hold: feature names in the order the
\* model was fitted with, one slope and one mean per name, an intercept
FeatureNameLists ==
    { <<"num_grammar_errors", "num_tokens">>,
      <<"num_tokens", "num_grammar_errors">>,
      <<"num_tokens">>,
      <<"num_grammar_errors", "num_tokens", "num_spelling_errors">> }

FittedSlopes == <<2, -1, 1>>
FittedMeans == <<0, 1, 0>>
Intercepts == {1, 3}

StoredArtifacts ==
    { [feature_names |-> fn,
       slope |-> SubSeq(FittedSlopes, 1, Len(fn)),
       mean |-> SubSeq(FittedMeans, 1, Len(fn)),
       intercept |-> b] : fn \in FeatureNameLists, b \in Intercepts }

InitSubmit ==
    /\ CleanIdle
    /\ TrainIdle
    /\ FeatIdle
    /\ ExtractIdle
    /\ testAudio \in SUBSET TestStems
    /\ asrCache = NoFile
    /\ modelFile \in StoredArtifacts
    /\ submission = NoFile
    /\ rawPred = <<>>
    /\ outcome = "none"
    /\ coefTable = [outcome |-> "none"]
    /\ trainAudio = {}
    /\ trainCache = NoFile
    /\ asrCall = [n |-> 0, outcome |-> "none"]
    /\ asrReport = [outcome |-> "none"]

\* a .wav file is put into data/test_audio
AddTestAudio ==
    \E f \in TestStems \ testAudio :
        /\ testAudio' = testAudio \cup {f}
        /\ UNCHANGED <<cleanVars, trainVars, featVars, extractVars, asrCache,
                       modelFile, submission, rawPred, outcome, coefTable,
                       asrVars>>

\* what main leaves behind, given the transcripts table and LanguageTool's
\* match count for each row
MainResult(df, matches) ==
    LET n     == Len(df)
        names == modelFile.feature_names
        feats == prepare_test_features(df, matches)
        y_raw == [i \in 1..n |-> Predict(modelFile, SelectColumns(feats[i], names))]
    IN  [rawPred |-> y_raw,
         submission |->
            [exists |-> TRUE,
             rows |-> [i \in 1..n |->
                 [filename |-> feats[i].filename, label |-> Clip(y_raw[i])]]]]

\* main(model_path, output_path) of generate_submission.py.  Whisper is asked
\* (asr) only when there is no cache; LanguageTool reports a number of
\* matches for each row.  The run raises
\* when the transcripts table is empty (it has no "transcript" column) and
\* when a stored feature name is no column of the feature table (KeyError).
GenerateSubmission ==
    \E asr \in (IF asrCache.exists THEN {<<>>} ELSE [testAudio -> AsrOutcomes]) :
      LET got == load_or_create_test_transcripts(testAudio, asrCache, asr)
      IN  /\ asrCache' = got.cache
          /\ IF Len(got.df) = 0 \/ ~HasColumns(modelFile.feature_names)
             THEN /\ outcome' = "raised"
                  /\ UNCHANGED <<submission, rawPred>>
             ELSE \E matches \in [1..Len(got.df) -> MatchCounts] :
                    LET saved == MainResult(got.df, matches)
                    IN  /\ rawPred' = saved.rawPred
                        /\ submission' = saved.submission
                        /\ outcome' = "saved"
          /\ UNCHANGED <<cleanVars, trainVars, featVars, extractVars, testAudio,
                         modelFile, coefTable, asrVars>>

\* artifacts = joblib.load(model_path) and
\* compute_feature_importance(artifacts) of scripts/extract_results.py; the
\* stored regressor's coefficients are its slopes
ExtractResults ==
    /\ coefTable = [outcome |-> "none"]
    /\ \E sorted \in compute_feature_importance(
                         modelFile.feature_names,
                         [j \in 1..Len(modelFile.slope) |->
                             whole(modelFile.slope[j])]) :
           coefTable' = [outcome |-> "returned", rows |-> sorted]
    /\ UNCHANGED <<cleanVars, trainVars, featVars, extractVars, testAudio,
                   asrCache, modelFile, submission, rawPred, outcome, asrVars>>

NextSubmit == AddTestAudio \/ GenerateSubmission \/ ExtractResults

SpecSubmit == InitSubmit /\ [][NextSubmit]_vars

(***************************************************************************)
(* ASR of the training split: transcribe_split of src/src/asr.py called    *)
(* with split="train", and step 2 of train_baseline.py, which calls it.    *)
(***************************************************************************)
MaxTrainFiles == 2
MaxAsrCalls == 2

TrainStems == 1..MaxTrainFiles

\* what is kept of a transcribe_split call: its number, its arguments,
\* whether the cache existed, what Whisper did with every path it was given
\* (whisper), and what the call did
CallRecord(n, audio_paths, overwrite, before, asr, got) ==
    [n |-> n, audio_paths |-> audio_paths, overwrite |-> overwrite,
     cached |-> before.exists, whisper |-> asr, outcome |-> got.outcome,
     df |-> got.df, transcribed |-> got.transcribed]

\* (asr_df["transcript"].fillna("").astype(str).str.strip() != "").sum()
successful(asr_df) ==
    Cardinality({ i \in 1..Len(asr_df) :
                    RStrip(LStrip(FillNa(asr_df[i].transcript).s)) # <<>> })

\* (asr_df["error"].notna()).sum()
failed(asr_df) ==
    Cardinality({ i \in 1..Len(asr_df) : ~asr_df[i].error.nan })

InitAsr ==
    /\ CleanIdle
    /\ TrainIdle
    /\ FeatIdle
    /\ ExtractIdle
    /\ testAudio = {}
    /\ asrCache = NoFile
    /\ modelFile = [feature_names |-> <<>>, slope |-> <<>>, mean |-> <<>>,
                    intercept |-> 0]
    /\ submission = NoFile
    /\ rawPred = <<>>
    /\ outcome = "none"
    /\ coefTable = [outcome |-> "none"]
    /\ trainAudio \in SUBSET TrainStems
    /\ trainCache = NoFile
    /\ asrCall = [n |-> 0, outcome |-> "none"]
    /\ asrReport = [outcome |-> "none"]

\* transcribe_split(audio_paths, split="train", overwrite=overwrite).
\* Whisper is asked (asr) for every path unless the cached table is used
TranscribeSplit ==
    /\ asrCall.n < MaxAsrCalls
    /\ \E audio_paths \in SUBSET trainAudio, overwrite \in BOOLEAN :
         \E asr \in (IF trainCache.exists /\ ~overwrite THEN {<<>>}
                     ELSE [audio_paths -> AsrOutcomes]) :
           LET got == transcribe_split(audio_paths, trainCache, asr, overwrite)
           IN  /\ trainCache' = got.cache
               /\ asrCall' = CallRecord(asrCall.n + 1, audio_paths, overwrite,
                                        trainCache, asr, got)
    /\ UNCHANGED <<cleanVars, trainVars, featVars, extractVars, testAudio,
                   asrCache, modelFile, submission, rawPred, outcome, coefTable,
                   trainAudio, asrReport>>

\* step 2 of train_baseline.py (lines 49-113).  It raises when there is no
\* audio file; a cache that reads as a table with a non-empty transcript
\* is used as it is; a cache without one is deleted; without a cache the
\* files are transcribed, the numbers of successful and of failed files are
\* printed, and the step raises when the first number is 0
AsrStep ==
    /\ asrReport.outcome = "none"
    /\ IF trainAudio = {} \/ (trainCache.exists /\ trainCache.rows = <<>>)
       THEN /\ asrReport' = [outcome |-> "raised", printed |-> FALSE]
            /\ UNCHANGED <<trainCache, asrCall>>
       ELSE IF /\ trainCache.exists
               /\ successful(ReadCsv(trainCache)) > 0
       THEN /\ asrReport' = [outcome |-> "cached", printed |-> FALSE]
            /\ UNCHANGED <<trainCache, asrCall>>
       ELSE \E asr \in [trainAudio -> AsrOutcomes] :
              LET got == transcribe_split(trainAudio, NoFile, asr, FALSE)
              IN  /\ trainCache' = got.cache
                  /\ asrCall' = CallRecord(asrCall.n + 1, trainAudio, FALSE,
                                           NoFile, asr, got)
                  /\ asrReport' =
                         [outcome |-> IF successful(got.df) = 0 THEN "raised"
                                      ELSE "transcribed",
                          printed |-> TRUE, call |-> asrCall.n + 1,
                          successful |-> successful(got.df),
                          failed |-> failed(got.df)]
    /\ UNCHANGED <<cleanVars, trainVars, featVars, extractVars, testAudio,
                   asrCache, modelFile, submission, rawPred, outcome, coefTable,
                   trainAudio>>

NextAsr == TranscribeSplit \/ AsrStep

SpecAsr == InitAsr /\ [][NextAsr]_vars

(***************************************************************************)
(* The trainer: src/src/model.py.  A fitted standardizer and a fitted      *)
(* regressor are represented by the rows and labels they were fitted on,   *)
(* which determine them.  Row positions are counted from 1.                *)
(***************************************************************************)
\* TrainingConfig.n_splits_cv
n_splits_cv == 5

\* a shuffle drawn from a generator that the earlier call has moved on
ShuffleUnseeded(n) ==
    IF cv = NotRun THEN [i \in 1..n |-> i] ELSE [i \in 1..n |-> n + 1 - i]

\* numpy.random.RandomState(42).shuffle(arange(n)), as 1-based positions
ShuffleSeed42(n) ==
    CASE n = 0 -> <<>>
      [] n = 1 -> <<1>>
      [] n = 2 -> <<2, 1>>
      [] n = 3 -> <<1, 2, 3>>
      [] n = 4 -> <<2, 4, 1, 3>>
      [] n = 5 -> <<2, 5, 3, 1, 4>>
      [] n = 6 -> <<1, 2, 6, 3, 5, 4>>
      [] n = 7 -> <<1, 2, 6, 3, 5, 4, 7>>

\* folds of n // k samples each, the remainder given to no fold
FoldSizeFloor(n, k, f) == n \div k

\* KFold: the first n % k folds hold n \div k + 1 samples, the others n \div k
FoldSize(n, k, f) == (n \div k) + (IF f <= n % k THEN 1 ELSE 0)

RECURSIVE FoldStart(_, _, _)
FoldStart(n, k, f) ==
    IF f = 1 THEN 1 ELSE FoldStart(n, k, f - 1) + FoldSize(n, k, f - 1)

\* the f-th (train_idx, val_idx) of KFold(k, shuffle=True, random_state=42)
\* .split(X) over n samples; both index arrays are ascending
KFoldSplit(n, k, f) ==
    LET perm == ShuffleSeed42(n)
        held == { perm[i] : i \in FoldStart(n, k, f)..
                                  (FoldStart(n, k, f) + FoldSize(n, k, f) - 1) }
    IN  [train_idx |-> Sorted((1..n) \ held), val_idx |-> Sorted(held)]

\* Series.iloc[idx] raises IndexError for a position past the end
InBounds(idx, series) == \A i \in 1..Len(idx) : idx[i] <= Len(series)

ILoc(series, idx) == [i \in 1..Len(idx) |-> series[idx[i]]]

\* a fit that stores the column names in reverse order
train_names_reversed(Xt, yt) ==
    IF Len(Xt.rows) = 0 \/ Len(Xt.rows) # Len(yt)
    THEN [outcome |-> "raised"]
    ELSE [outcome |-> "fitted",
          artifacts |->
              [scaler |-> [fitted_on |-> Xt.rows],
               model |-> [fitted_on |-> Xt.rows, targets |-> yt,
                          n_coef |-> Len(Xt.columns)],
               feature_names |->
                   [j \in 1..Len(Xt.columns) |->
                       Xt.columns[Len(Xt.columns) + 1 - j]]]]

\* train_baseline_model(X, y): StandardScaler.fit_transform rejects an empty
\* table and Ridge.fit rejects X and y of different lengths (ValueError)
train_baseline_model(Xt, yt) ==
    IF Len(Xt.rows) = 0 \/ Len(Xt.rows) # Len(yt)
    THEN [outcome |-> "raised"]
    ELSE [outcome |-> "fitted",
          artifacts |->
              [scaler |-> [fitted_on |-> Xt.rows],
               model |-> [fitted_on |-> Xt.rows, targets |-> yt,
                          n_coef |-> Len(Xt.columns)],
               feature_names |-> Xt.columns]]

\* Ridge's alpha, as every caller passes it
alpha == 1

\* artifacts.model.predict(artifacts.scaler.transform(X_val.values)) for a
\* table of two columns, exactly: with u, v, t the training columns and
\* targets, centred and multiplied by n, the standardizer divides by the
\* population standard deviation (by 1 for a constant column) and the
\* regressor solves (Z'Z + alpha I) w = Z'(y - mean(y)), intercept mean(y).
\* All predictions are given over one denominator.
RidgeFit(artifacts) ==
    LET rows == artifacts.scaler.fitted_on
        ys   == artifacts.model.targets
        n    == Len(rows)
        Sa   == SumSeq([i \in 1..n |-> rows[i][1]])
        Sb   == SumSeq([i \in 1..n |-> rows[i][2]])
        Sy   == SumSeq(ys)
        u    == [i \in 1..n |-> n * rows[i][1] - Sa]
        v    == [i \in 1..n |-> n * rows[i][2] - Sb]
        t    == [i \in 1..n |-> n * ys[i] - Sy]
        Suu  == SumSeq([i \in 1..n |-> u[i] * u[i]])
        Svv  == SumSeq([i \in 1..n |-> v[i] * v[i]])
        Suv  == SumSeq([i \in 1..n |-> u[i] * v[i]])
        Sut  == SumSeq([i \in 1..n |-> u[i] * t[i]])
        Svt  == SumSeq([i \in 1..n |-> v[i] * t[i]])
        A11  == IF Suu > 0 THEN Suu * (n + alpha) ELSE alpha * n * n * n
        A22  == IF Svv > 0 THEN Svv * (n + alpha) ELSE alpha * n * n * n
        A12  == n * Suv
    IN  [n |-> n, Sa |-> Sa, Sb |-> Sb, Sy |-> Sy, Suu |-> Suu, Svv |-> Svv,
         det |-> A11 * A22 - A12 * A12,
         N1  |-> A22 * n * Sut - A12 * n * Svt,
         N2  |-> A11 * n * Svt - A12 * n * Sut]

PredictRidge(artifacts, X_val) ==
    LET fit  == RidgeFit(artifacts)
        nums == [i \in 1..Len(X_val) |->
                    fit.Sy * fit.det + (fit.n * X_val[i][1] - fit.Sa) * fit.N1
                                     + (fit.n * X_val[i][2] - fit.Sb) * fit.N2]
        g    == GcdSeq(nums, fit.n * fit.det)
    IN  [nums |-> [i \in 1..Len(nums) |-> nums[i] \div g],
         den  |-> (fit.n * fit.det) \div g]

\* artifacts.model.coef_ after train_baseline_model: in the notation of
\* RidgeFit the coefficient of column j is N_j / det times the standard
\* deviation sqrt(S_jj / n^3) of the column
coef_(artifacts) ==
    LET fit == RidgeFit(artifacts)
        c(N, S) == [num   |-> N \div Gcd(Abs(N), fit.det),
                    den   |-> fit.det \div Gcd(Abs(N), fit.det),
                    scale |-> Div(S, fit.n * fit.n * fit.n)]
    IN  <<c(fit.N1, fit.Suu), c(fit.N2, fit.Svv)>>

\* a pass of the loop whose standardizer and regressor are fitted on every
\* row, the held-out rows included
EvaluateFoldLeaky(Xt, yt, k, f) ==
    LET sp == KFoldSplit(Len(Xt.rows), k, f)
    IN  IF ~InBounds(sp.train_idx, yt) \/ ~InBounds(sp.val_idx, yt)
        THEN [outcome |-> "raised"]
        ELSE LET fit == train_baseline_model(Xt, SubSeq(yt, 1, Len(Xt.rows)))
             IN  IF fit.outcome = "raised" THEN [outcome |-> "raised"]
                 ELSE [outcome |-> "scored",
                       train_idx |-> sp.train_idx, val_idx |-> sp.val_idx,
                       artifacts |-> fit.artifacts,
                       X_val |-> ILoc(Xt.rows, sp.val_idx),
                       y_val |-> ILoc(yt, sp.val_idx),
                       y_pred |-> PredictRidge(fit.artifacts,
                                               ILoc(Xt.rows, sp.val_idx))]

\* one pass of the loop over kf.split(X) up to y_pred (lines 89-95)
EvaluateFold(Xt, yt, k, f) ==
    LET sp == KFoldSplit(Len(Xt.rows), k, f)
    IN  IF ~InBounds(sp.train_idx, yt) \/ ~InBounds(sp.val_idx, yt)
        THEN [outcome |-> "raised"]
        ELSE LET fit == train_baseline_model(
                            [columns |-> Xt.columns,
                             rows |-> ILoc(Xt.rows, sp.train_idx)],
                            ILoc(yt, sp.train_idx))
             IN  IF fit.outcome = "raised" THEN [outcome |-> "raised"]
                 ELSE [outcome |-> "scored",
                       train_idx |-> sp.train_idx, val_idx |-> sp.val_idx,
                       artifacts |-> fit.artifacts,
                       X_val |-> ILoc(Xt.rows, sp.val_idx),
                       y_val |-> ILoc(yt, sp.val_idx),
                       y_pred |-> PredictRidge(fit.artifacts,
                                               ILoc(Xt.rows, sp.val_idx))]

\* the passes of the loop over kf.split(X) from fold f on
RECURSIVE FoldLoop(_, _, _, _)
FoldLoop(Xt, yt, k, f) ==
    IF f > k THEN <<>>
    ELSE <<EvaluateFold(Xt, yt, k, f)>> \o FoldLoop(Xt, yt, k, f + 1)

\* the errors y_val - y_pred of a fold, over the denominator of y_pred
Errors(fold) ==
    [i \in 1..Len(fold.y_val) |->
        fold.y_val[i] * fold.y_pred.den - fold.y_pred.nums[i]]

\* mean_absolute_error(y_val, y_pred)
mean_absolute_error(fold) ==
    Div(SumSeq([i \in 1..Len(fold.y_val) |-> Abs(Errors(fold)[i])]),
        Len(fold.y_val) * fold.y_pred.den)

\* mean_squared_error(y_val, y_pred)
mean_squared_error(fold) ==
    Div(SumSeq([i \in 1..Len(fold.y_val) |-> Errors(fold)[i] * Errors(fold)[i]]),
        Len(fold.y_val) * fold.y_pred.den * fold.y_pred.den)

\* sqrt(mse): the root is kept as what it is the root of
sqrt(mse) == [sqrt |-> mse]

\* np.std(values) > 0: the values are not all equal
StdPositive(values) ==
    \E i, j \in 1..Len(values) : values[i] # values[j]

\* np.corrcoef(y_val, y_pred)[0, 1], as its sign and its square
corrcoef(fold) ==
    LET m   == Len(fold.y_val)
        p   == [i \in 1..m |-> m * fold.y_pred.nums[i] - SumSeq(fold.y_pred.nums)]
        q   == [i \in 1..m |-> m * fold.y_val[i] - SumSeq(fold.y_val)]
        Spq == SumSeq([i \in 1..m |-> p[i] * q[i]])
        Spp == SumSeq([i \in 1..m |-> p[i] * p[i]])
        Sqq == SumSeq([i \in 1..m |-> q[i] * q[i]])
    IN  [sign |-> IF Spq > 0 THEN 1 ELSE IF Spq < 0 THEN 0 - 1 ELSE 0,
         sq   |-> Div(Spq * Spq, Spp * Sqq)]

\* a fold without variance is given the correlation 0
PearsOrZero(folds) ==
    [f \in 1..Len(folds) |->
        IF StdPositive(folds[f].y_pred.nums) /\ StdPositive(folds[f].y_val)
        THEN corrcoef(folds[f])
        ELSE [sign |-> 0, sq |-> Div(0, 1)]]

\* pears, as lines 101-102 fill it
Pears(folds) ==
    LET has_variance(fold) ==
            StdPositive(fold.y_pred.nums) /\ StdPositive(fold.y_val)
        kept == SelectSeq(folds, has_variance)
    IN  [i \in 1..Len(kept) |-> corrcoef(kept[i])]

\* float("nan")
FloatNaN == [nan |-> TRUE]

\* the dict of lines 104-111; np.mean and np.std of a list are kept as
\* the list they are taken over
Aggregate(folds) ==
    LET maes  == [f \in 1..Len(folds) |-> mean_absolute_error(folds[f])]
        rmses == [f \in 1..Len(folds) |-> sqrt(mean_squared_error(folds[f]))]
        pears == Pears(folds)
    IN  [mae_mean  |-> [mean |-> maes],
         mae_std   |-> [std |-> maes],
         rmse_mean |-> [mean |-> rmses],
         rmse_std  |-> [std |-> rmses],
         pearson_mean |-> IF pears # <<>> THEN [mean |-> pears] ELSE FloatNaN,
         pearson_std  |-> IF pears # <<>> THEN [std |-> pears] ELSE FloatNaN]

\* cross_validate_baseline(X, y, n_splits=ns): KFold.split raises ValueError
\* when there are more folds than samples; the loop stops at the first fold
\* that raises
cross_validate_baseline(Xt, yt, ns) ==
    LET k     == IF ns = 0 THEN n_splits_cv ELSE ns
        folds == FoldLoop(Xt, yt, k, 1)
    IN  IF k > Len(Xt.rows) \/ \E f \in 1..k : folds[f].outcome = "raised"
        THEN [outcome |-> "raised"]
        ELSE [outcome |-> "returned", folds |-> folds,
              metrics |-> Aggregate(folds)]

FeatureRows == { <<0, 1>>, <<2, 3>> }
Labels == {1, 4}
SplitArgs == {0, 2, 3}

InitTrain ==
    /\ CleanIdle
    /\ SubmitIdle
    /\ FeatIdle
    /\ ExtractIdle
    /\ \E n \in 0..MaxRows :
           X \in { [columns |-> ExtractorColumns, rows |-> r] :
                       r \in [1..n -> FeatureRows] }
    /\ \E m \in 0..MaxRows : y \in [1..m -> Labels]
    /\ n_splits \in SplitArgs
    /\ trained = NotRun
    /\ cv = NotRun
    /\ cvAgain = NotRun
    /\ importance = NotRun
    /\ testPred = NotRun

\* artifacts = train_baseline_model(X, y, alpha=1.0)
TrainBaseline ==
    /\ trained = NotRun
    /\ trained' = train_baseline_model(X, y)
    /\ UNCHANGED <<cleanVars, submitVars, featVars, extractVars, X, y, n_splits, cv,
                   cvAgain, importance, testPred>>

\* cv_results = cross_validate_baseline(X, y, alpha=1.0, n_splits=n_splits)
CrossValidate ==
    /\ cv = NotRun
    /\ cv' = cross_validate_baseline(X, y, n_splits)
    /\ UNCHANGED <<cleanVars, submitVars, featVars, extractVars, X, y, n_splits,
                   trained, cvAgain, importance, testPred>>

\* a second cross_validate_baseline(X, y, alpha=1.0, n_splits=n_splits)
CrossValidateAgain ==
    /\ cv # NotRun
    /\ cvAgain = NotRun
    /\ cvAgain' = cross_validate_baseline(X, y, n_splits)
    /\ UNCHANGED <<cleanVars, submitVars, featVars, extractVars, X, y, n_splits,
                   trained, cv, importance, testPred>>

NextTrain == TrainBaseline \/ CrossValidate \/ CrossValidateAgain

SpecTrain == InitTrain /\ [][NextTrain]_vars

(***************************************************************************)
(* What is done with the artifacts after training: the table of            *)
(* coefficients (scripts/extract_results.py, scripts/                      *)
(* generate_visualizations.py) and the predictions for test rows           *)
(* (submission/generate_submission.py), next to cross-validation.          *)
(***************************************************************************)
MaxFitRows == 3

InitArtifacts ==
    /\ CleanIdle
    /\ SubmitIdle
    /\ FeatIdle
    /\ ExtractIdle
    /\ \E n \in 0..MaxFitRows :
           X \in { [columns |-> ExtractorColumns, rows |-> r] :
                       r \in [1..n -> FeatureRows] }
    /\ \E m \in 0..MaxFitRows : y \in [1..m -> Labels]
    /\ n_splits \in SplitArgs
    /\ trained = NotRun
    /\ cv = NotRun
    /\ cvAgain = NotRun
    /\ importance = NotRun
    /\ testPred = NotRun

\* compute_feature_importance(artifacts) on the artifacts that were trained
\* and stored
FeatureImportance ==
    /\ trained.outcome = "fitted"
    /\ importance = NotRun
    /\ \E sorted \in compute_feature_importance(
                         trained.artifacts.feature_names,
                         coef_(trained.artifacts)) :
           importance' = [outcome |-> "returned", rows |-> sorted]
    /\ UNCHANGED <<cleanVars, submitVars, featVars, extractVars, X, y, n_splits,
                   trained, cv, cvAgain, testPred>>

\* lines 64-70 of main in generate_submission.py with the artifacts that
\* were trained and stored, for the feature table of one test file: the
\* columns named by feature_names are taken, transformed and predicted
PredictSubmission ==
    /\ trained.outcome = "fitted"
    /\ testPred = NotRun
    /\ \E r \in FeatureRows :
         LET feats == [feats |-> [j \in Range(ExtractorColumns) |->
                          r[CHOOSE k \in 1..Len(ExtractorColumns) :
                                ExtractorColumns[k] = j]]]
             names == trained.artifacts.feature_names
         IN  testPred' =
                 IF ~HasColumns(names) THEN [outcome |-> "raised"]
                 ELSE [outcome |-> "predicted", feature_names |-> names,
                       y_pred |-> PredictRidge(trained.artifacts,
                                      <<SelectColumns(feats, names)>>)]
    /\ UNCHANGED <<cleanVars, submitVars, featVars, extractVars, X, y, n_splits,
                   trained, cv, cvAgain, importance>>

NextArtifacts ==
    TrainBaseline \/ CrossValidate \/ FeatureImportance \/ PredictSubmission

SpecArtifacts == InitArtifacts /\ [][NextArtifacts]_vars

\* C2: train_baseline_model and cross_validate_baseline raise when the
\* number of labels differs from the number of feature rows, whether y is
\* shorter or longer than X.
C2_LengthMismatchRejected ==
    Len(y) # Len(X.rows) =>
        /\ trained.outcome # "fitted"
        /\ cv.outcome # "returned"

\* the folds of the first call whose true values and whose predictions
\* both take more than one value
Contributing ==
    { f \in 1..Len(cv.folds) :
        /\ Cardinality(Range(cv.folds[f].y_val)) > 1
        /\ Cardinality(Range(cv.folds[f].y_pred.nums)) > 1 }

\* C19: MAE and RMSE are taken over every fold, the Pearson aggregate over
\* just the folds whose true and predicted values both vary, and
\* pearson_mean and pearson_std are NaN exactly when there is no such fold.
C19_PearsonOnlyWithVariance ==
    cv.outcome = "returned" =>
        /\ Len(cv.metrics.mae_mean.mean) = Len(cv.folds)
        /\ Len(cv.metrics.rmse_mean.mean) = Len(cv.folds)
        /\ cv.metrics.pearson_mean = FloatNaN <=> Contributing = {}
        /\ cv.metrics.pearson_std = FloatNaN <=> Contributing = {}
        /\ Contributing # {} =>
               /\ Len(cv.metrics.pearson_mean.mean) = Cardinality(Contributing)
               /\ Len(cv.metrics.pearson_std.std) = Cardinality(Contributing)

\* one fold counts for the Pearson aggregate and another does not
C19_Witness ==
    /\ cv.outcome = "returned"
    /\ Contributing # {}
    /\ Contributing # 1..Len(cv.folds)
    /\ cv.metrics.pearson_mean # FloatNaN

ColumnMissing(names) == ~HasColumns(names)

SameColumnsOtherOrder(names) ==
    /\ Len(names) = Len(ExtractorColumns)
    /\ Range(names) = Range(ExtractorColumns)
    /\ names # ExtractorColumns

C1_MismatchRaises ==
    (ColumnMissing(modelFile.feature_names)
        \/ SameColumnsOtherOrder(modelFile.feature_names))
    => outcome # "saved"

\* C9: every label written to the submission lies in [1, 5], whatever the
\* raw prediction was.
C9_LabelsInRange ==
    submission.exists =>
        \A i \in 1..Len(submission.rows) :
            /\ submission.rows[i].label >= 1
            /\ submission.rows[i].label <= 5

C9_Witness ==
    /\ outcome = "saved"
    /\ \E i, j \in 1..Len(submission.rows) :
           /\ rawPred[i] > 5 /\ submission.rows[i].label = 5
           /\ rawPred[j] < 1 /\ submission.rows[j].label = 1

\* C10: a run of main that saves a submission writes exactly one row for
\* each test audio file, from a cache as well as from a fresh transcription.
C10_OneRowPerTestFile ==
    [][(GenerateSubmission /\ outcome' = "saved") =>
          /\ Len(submission'.rows) = Cardinality(testAudio)
          /\ { submission'.rows[i].filename : i \in 1..Len(submission'.rows) }
                 = testAudio]_vars

(***************************************************************************)
(* The feature extractor: src/src/feature_engineering.py.  A dict is       *)
(* [keys, val]: its keys in insertion order and the value of each key.     *)
(***************************************************************************)
\* most matches LanguageTool reports for one text
MaxMatches == 2
\* most tokens of a parsed document
MaxDocTokens == 3

\* the characters of a string literal
Chars(str) == [i \in 1..Len(str) |-> SubSeq(str, i, i)]

\* k in s, on strings
Contains(s, k) ==
    \E i \in 0..(Len(s) - Len(k)) : SubSeq(s, i + 1, i + Len(k)) = k

\* the keys of counts, in insertion order
CountKeys ==
    <<"num_grammar_errors", "num_verb_tense_errors", "num_agreement_errors",
      "num_article_errors", "num_preposition_errors", "num_word_order_errors">>

\* the words looked for in a match's message, by counter
CategoryKeywords ==
    [num_verb_tense_errors  |-> {Chars("verb"), Chars("tense")},
     num_agreement_errors   |-> {Chars("agreement"), Chars("subject-verb")},
     num_article_errors     |-> {Chars("article"), Chars("determiner")},
     num_preposition_errors |-> {Chars("preposition")},
     num_word_order_errors  |-> {Chars("word order")}]

\* an if/elif chain: a match is counted in the first category it falls in
CountMatchExclusive(counts, m) ==
    LET msg  == lowercase(m.message)
        hit  == { i \in 2..Len(CountKeys) :
                    \E kw \in CategoryKeywords[CountKeys[i]] : Contains(msg, kw) }
    IN  [k \in DOMAIN counts |->
            IF k = "num_grammar_errors" THEN counts[k] + 1
            ELSE IF hit # {} /\ k = CountKeys[CHOOSE i \in hit : \A j \in hit : i <= j]
                 THEN counts[k] + 1
                 ELSE counts[k]]

\* one pass of the loop over matches: rule_id is read and lower-cased, and
\* only msg is searched
CountMatch(counts, m) ==
    LET rule_id == lowercase(m.ruleId)
        msg     == lowercase(m.message)
    IN  [k \in DOMAIN counts |->
            IF k = "num_grammar_errors" THEN counts[k] + 1
            ELSE IF \E kw \in CategoryKeywords[k] : Contains(msg, kw)
                 THEN counts[k] + 1
                 ELSE counts[k]]

RECURSIVE CountMatches(_, _)
CountMatches(counts, matches) ==
    IF matches = <<>> THEN counts
    ELSE CountMatches(CountMatch(counts, Head(matches)), Tail(matches))

denom_unguarded(num_tokens) == num_tokens

\* denom = max(num_tokens, 1)
denom(num_tokens) == Max(num_tokens, 1)

Per100Key(key) == key \o "_per_100_tokens"

\* _grammar_error_features(text), given matches = self._tool.check(text)
grammar_error_features(t, matches) ==
    LET num_tokens == Len(WsTokens(t))
        counts     == CountMatches([k \in Range(CountKeys) |-> 0], matches)
        per100     == [k \in { Per100Key(CountKeys[i]) : i \in 1..Len(CountKeys) } |->
                          LET i == CHOOSE i \in 1..Len(CountKeys) :
                                       Per100Key(CountKeys[i]) = k
                          IN  Div(100 * counts[CountKeys[i]], denom(num_tokens))]
    IN  [keys |-> CountKeys
                    \o [i \in 1..Len(CountKeys) |-> Per100Key(CountKeys[i])]
                    \o <<"num_tokens">>,
         val  |-> counts @@ per100 @@ ("num_tokens" :> num_tokens)]

\* what LanguageTool may report: (ruleId, message)
Match(id, msg) == [ruleId |-> Chars(id), message |-> Chars(msg)]

MatchKinds ==
    { Match("HE_VERB_AGR", "Use a past tense verb."),
      Match("SUBJECT_VERB_AGREEMENT", "Subject-verb agreement error."),
      Match("EN_A_VS_AN", "Use an instead of a."),
      Match("MISSING_PREPOSITION", "Did you mean to?"),
      Match("WORD_ORDER", "Check the word order and the article.") }

Ex_he_go_there == Chars("he go  there")

\* texts handed to the grammar checker
FeatureTexts == { <<>>, Ex_he_go, Ex_he_go_there }

\* what the grammar features are computed from; LanguageTool reports
\* nothing on a text without tokens
GrammarProbes ==
    { p \in [kind : {"grammar"}, text : FeatureTexts,
             matches : UNION { [1..n -> MatchKinds] : n \in 0..MaxMatches }] :
        p.text = <<>> => p.matches = <<>> }

\* a / b if b else 0.0, without the test
RatioUnguarded(a, b) == Div(a, b)

\* a / b if b else 0.0
Ratio(a, b) == IF b # 0 THEN Div(a, b) ELSE Div(0, 1)

ClauseDeps == {"ROOT", "ccomp", "xcomp", "advcl", "relcl", "acl"}
SubordinateDeps == {"ccomp", "xcomp", "advcl", "relcl", "acl"}
VerbTags == {"VERB", "AUX"}
SubjectDeps == {"nsubj", "nsubjpass"}

\* the sentence a token of a parsed document belongs to, counted from 1
SentOf(doc, i) == Cardinality({ j \in 1..i : doc[j].sent_start })

\* len(list(doc.sents))
NumSents(doc) == SentOf(doc, Len(doc))

\* _syntactic_features(text), given doc = self._nlp(text): a sequence of
\* tokens [pos, dep, sent_start]
syntactic_features(doc) ==
    LET num_sentences == Max(NumSents(doc), 1)
        num_tokens    == Len(doc)
        toks          == 1..Len(doc)
        num_fragments ==
            Cardinality({ k \in 1..NumSents(doc) :
                ~\E i \in toks : SentOf(doc, i) = k /\ doc[i].pos \in VerbTags })
        num_clauses   == Cardinality({ i \in toks : doc[i].dep \in ClauseDeps })
        num_subordinate_clauses ==
            Cardinality({ i \in toks : doc[i].dep \in SubordinateDeps })
        num_coord_conj == Cardinality({ i \in toks : doc[i].pos = "CCONJ" })
        num_verbs     == Cardinality({ i \in toks : doc[i].pos \in VerbTags })
        num_subject_pronouns ==
            Cardinality({ i \in toks :
                doc[i].pos = "PRON" /\ doc[i].dep \in SubjectDeps })
    IN  [keys |-> <<"num_sentences", "avg_sentence_length_tokens", "num_clauses",
                    "num_subordinate_clauses", "num_coord_conj",
                    "clause_to_sentence_ratio", "subordinate_clause_ratio",
                    "verb_token_ratio", "fragment_ratio", "pronoun_subject_ratio">>,
         val  |->
            [num_sentences |-> num_sentences,
             avg_sentence_length_tokens |-> Ratio(num_tokens, num_sentences),
             num_clauses |-> num_clauses,
             num_subordinate_clauses |-> num_subordinate_clauses,
             num_coord_conj |-> num_coord_conj,
             clause_to_sentence_ratio |-> Ratio(num_clauses, num_sentences),
             subordinate_clause_ratio |->
                 Ratio(num_subordinate_clauses, num_clauses),
             verb_token_ratio |-> Ratio(num_verbs, num_tokens),
             fragment_ratio |-> Ratio(num_fragments, num_sentences),
             pronoun_subject_ratio |-> Ratio(num_subject_pronouns, num_clauses)]]

\* what spaCy may tag a token as: (pos_, dep_)
TokenKinds ==
    { <<"PRON", "nsubj">>, <<"VERB", "ROOT">>, <<"NOUN", "ROOT">>,
      <<"VERB", "ccomp">>, <<"CCONJ", "cc">>, <<"AUX", "aux">> }

Token(kind, start) == [pos |-> kind[1], dep |-> kind[2], sent_start |-> start]

\* parsed documents: the first token starts a sentence and every sentence
\* has one ROOT
Docs ==
    { d \in UNION { [1..n -> { Token(k, b) : k \in TokenKinds, b \in BOOLEAN }] :
                        n \in 0..MaxDocTokens } :
        /\ Len(d) > 0 => d[1].sent_start
        /\ \A k \in 1..NumSents(d) :
               Cardinality({ i \in 1..Len(d) :
                   SentOf(d, i) = k /\ d[i].dep = "ROOT" }) = 1 }

SyntacticProbes == { [kind |-> "syntactic", doc |-> d] : d \in Docs }

InitFeatures ==
    /\ CleanIdle
    /\ SubmitIdle
    /\ TrainIdle
    /\ ExtractIdle
    /\ probe \in GrammarProbes \cup SyntacticProbes
    /\ computed = NotRun

\* grammar_feats = self._grammar_error_features(text)
GrammarFeatures ==
    /\ probe.kind = "grammar"
    /\ computed = NotRun
    /\ computed' = [outcome |-> "computed",
                    features |-> grammar_error_features(probe.text, probe.matches)]
    /\ UNCHANGED <<cleanVars, submitVars, trainVars, extractVars, probe>>

\* syntactic_feats = self._syntactic_features(text)
SyntacticFeatures ==
    /\ probe.kind = "syntactic"
    /\ computed = NotRun
    /\ computed' = [outcome |-> "computed",
                    features |-> syntactic_features(probe.doc)]
    /\ UNCHANGED <<cleanVars, submitVars, trainVars, extractVars, probe>>

NextFeatures == GrammarFeatures \/ SyntacticFeatures

SpecFeatures == InitFeatures /\ [][NextFeatures]_vars

GrammarComputed == probe.kind = "grammar" /\ computed.outcome = "computed"

SyntacticComputed == probe.kind = "syntactic" /\ computed.outcome = "computed"

SubCategories == DOMAIN CategoryKeywords

\* the matches of the probe whose message names category k
MessageNames(k) ==
    { i \in 1..Len(probe.matches) :
        \E kw \in CategoryKeywords[k] :
            Contains(lowercase(probe.matches[i].message), kw) }

\* the matches of the probe whose rule identifier names category k
RuleIdNames(k) ==
    { i \in 1..Len(probe.matches) :
        \E kw \in CategoryKeywords[k] :
            Contains(lowercase(probe.matches[i].ruleId), kw) }

\* C13: a match is counted in a sub-category when its rule identifier or
\* its message contains one of the category's keywords.
C13_RuleIdOrMessage ==
    GrammarComputed =>
        \A k \in SubCategories :
            computed.features.val[k]
                = Cardinality(RuleIdNames(k) \cup MessageNames(k))

RECURSIVE SumOver(_, _)
SumOver(f, S) ==
    IF S = {} THEN 0
    ELSE LET k == CHOOSE k \in S : TRUE IN f[k] + SumOver(f, S \ {k})

\* C14: every match adds one to num_grammar_errors and one to each
\* sub-category whose keywords it matches, so no sub-category count
\* exceeds num_grammar_errors.
C14_NonExclusive ==
    GrammarComputed =>
        /\ computed.features.val["num_grammar_errors"] = Len(probe.matches)
        /\ \A k \in SubCategories :
               /\ computed.features.val[k] = Cardinality(MessageNames(k))
               /\ computed.features.val[k]
                      <= computed.features.val["num_grammar_errors"]

\* one match in two categories: the sub-category counts add up to more than
\* num_grammar_errors
C14_Witness ==
    /\ GrammarComputed
    /\ \E i \in 1..Len(probe.matches), k1, k2 \in SubCategories :
           k1 # k2 /\ i \in MessageNames(k1) /\ i \in MessageNames(k2)
    /\ SumOver(computed.features.val, SubCategories)
           > computed.features.val["num_grammar_errors"]

\* the number of maximal runs of non-whitespace characters of the probe
TokenCount ==
    Cardinality({ i \in 1..Len(probe.text) :
        /\ probe.text[i] \notin Whitespace
        /\ (i = 1 \/ probe.text[i - 1] \in Whitespace) })

\* C15: each <counter>_per_100_tokens is 100 * counter / max(token_count, 1),
\* num_tokens is the whitespace token count, and no division is by zero.
C15_Per100Tokens ==
    GrammarComputed =>
        /\ computed.features.val["num_tokens"] = TokenCount
        /\ \A i \in 1..Len(CountKeys) :
             LET rate == computed.features.val[Per100Key(CountKeys[i])]
                 cnt  == computed.features.val[CountKeys[i]]
             IN  /\ rate.den # 0
                 /\ rate.num * (IF TokenCount > 1 THEN TokenCount ELSE 1)
                        = 100 * cnt * rate.den

\* the features of an empty text: denominator 1
C15_Witness ==
    /\ GrammarComputed
    /\ probe.text = <<>>
    /\ computed.features.val["num_tokens"] = 0
    /\ computed.features.val["num_grammar_errors_per_100_tokens"]
           = [num |-> 0, den |-> 1]

RatioKeys ==
    {"avg_sentence_length_tokens", "clause_to_sentence_ratio",
     "subordinate_clause_ratio", "verb_token_ratio", "fragment_ratio",
     "pronoun_subject_ratio"}

Zero == [num |-> 0, den |-> 1]

\* C16: no syntactic ratio divides by zero: a ratio over no tokens or no
\* clauses is 0.0, the sentence count is at least 1, and an empty document
\* has one sentence and all ratios 0.0.
C16_RatiosDefined ==
    SyntacticComputed =>
        LET f == computed.features.val
        IN  /\ \A k \in RatioKeys : f[k].den # 0
            /\ f["num_sentences"] >= 1
            /\ Len(probe.doc) = 0 => f["verb_token_ratio"] = Zero
            /\ f["num_clauses"] = 0 =>
                   /\ f["subordinate_clause_ratio"] = Zero
                   /\ f["pronoun_subject_ratio"] = Zero
            /\ probe.doc = <<>> =>
                   /\ f["num_sentences"] = 1
                   /\ \A k \in RatioKeys : f[k] = Zero

C16_Witness ==
    /\ SyntacticComputed
    /\ probe.doc = <<>>
    /\ computed.features.val["num_sentences"] = 1
    /\ computed.features.val["num_clauses"] = 0

(***************************************************************************)
(* The extractor instance and its two engines.  The operators below pass   *)
(* on w = [self, engines]: the instance's fields and what is installed,    *)
(* with the number of LanguageTool servers started and of spaCy pipelines  *)
(* loaded so far.                                                          *)
(***************************************************************************)
\* most texts in one transform call
MaxTexts == 2
\* most transform calls on one instance
MaxCalls == 2

\* language_tool_python.LanguageTool(...) and spacy.load(...)
ToolHandle == "LanguageTool"
NlpHandle == "Language"

\* _ensure_language_tool without the test of self._tool
ensure_language_tool_eager(w) ==
    IF w.engines.language_tool # "ok" THEN [raised |-> TRUE, w |-> w]
    ELSE [raised |-> FALSE,
          w |-> [self    |-> [w.self EXCEPT !.tool = ToolHandle],
                 engines |-> [w.engines EXCEPT !.started = @ + 1]]]

\* _ensure_language_tool: ImportError when the module is missing; the
\* constructor raises when no Java runtime is found, and self._tool stays
\* None
ensure_language_tool(w) ==
    IF w.engines.language_tool = "missing" THEN [raised |-> TRUE, w |-> w]
    ELSE IF w.self.tool # None THEN [raised |-> FALSE, w |-> w]
    ELSE IF w.engines.language_tool = "no_java" THEN [raised |-> TRUE, w |-> w]
    ELSE [raised |-> FALSE,
          w |-> [self    |-> [w.self EXCEPT !.tool = ToolHandle],
                 engines |-> [w.engines EXCEPT !.started = @ + 1]]]

\* _ensure_spacy: ImportError when the module is missing; spacy.load raises
\* when the model is not installed, and self._nlp stays None
ensure_spacy(w) ==
    IF w.engines.spacy = "missing" THEN [raised |-> TRUE, w |-> w]
    ELSE IF w.self.nlp # None THEN [raised |-> FALSE, w |-> w]
    ELSE IF w.engines.spacy = "no_model" THEN [raised |-> TRUE, w |-> w]
    ELSE [raised |-> FALSE,
          w |-> [self    |-> [w.self EXCEPT !.nlp = NlpHandle],
                 engines |-> [w.engines EXCEPT !.loaded = @ + 1]]]

\* self._tool.check(text): what the installed LanguageTool reports
LanguageToolCheck(t) ==
    IF t = Ex_he_go THEN <<Match("HE_VERB_AGR", "Use a past tense verb.")>>
    ELSE <<>>

\* self._nlp(text): the parse of the installed pipeline
SpacyParse(t) ==
    IF t = Ex_he_go
    THEN <<Token(<<"PRON", "nsubj">>, TRUE), Token(<<"VERB", "ROOT">>, FALSE)>>
    ELSE [i \in 1..Len(WsTokens(t)) |->
             Token(<<"X", IF i = 1 THEN "ROOT" ELSE "dep">>, i = 1)]

NoDict == [keys |-> <<>>, val |-> <<>>]

\* self._grammar_error_features(text), with the instance it leaves behind
grammar_feats(w, t) ==
    LET e == ensure_language_tool(w)
    IN  IF e.raised THEN [raised |-> TRUE, w |-> e.w, features |-> NoDict]
        ELSE [raised |-> FALSE, w |-> e.w,
              features |-> grammar_error_features(t, LanguageToolCheck(t))]

\* a parser that is not there is passed over: no syntactic features
syntactic_feats_skipped(w, t) ==
    LET e == ensure_spacy(w)
    IN  IF e.raised THEN [raised |-> FALSE, w |-> e.w, features |-> NoDict]
        ELSE [raised |-> FALSE, w |-> e.w,
              features |-> syntactic_features(SpacyParse(t))]

\* self._syntactic_features(text), with the instance it leaves behind
syntactic_feats(w, t) ==
    LET e == ensure_spacy(w)
    IN  IF e.raised THEN [raised |-> TRUE, w |-> e.w, features |-> NoDict]
        ELSE [raised |-> FALSE, w |-> e.w,
              features |-> syntactic_features(SpacyParse(t))]

\* {**d1, **d2}
Merge(d1, d2) ==
    [keys |-> d1.keys \o SelectSeq(d2.keys, LAMBDA k : k \notin Range(d1.keys)),
     val  |-> d2.val @@ d1.val]

\* values a caller may put into texts
NoneValue == [type |-> "NoneType"]
IntValue(n) == [type |-> "int", v |-> n]
StrValue(chars) == [type |-> "str", s |-> chars]

Digits == Chars("0123456789")

\* str(n) for n >= 0
RECURSIVE StrNat(_)
StrNat(n) ==
    IF n < 10 THEN <<Digits[n + 1]>>
    ELSE StrNat(n \div 10) \o <<Digits[(n % 10) + 1]>>

\* str(None)
CoerceByStr(v) ==
    IF v.type = "str" THEN v.s
    ELSE IF v.type = "NoneType" THEN Chars("None") ELSE StrNat(v.v)

\* lines 160-161: "" for None, str(text) for any other non-string
Coerce(v) ==
    IF v.type = "str" THEN v.s
    ELSE IF v.type = "NoneType" THEN <<>> ELSE StrNat(v.v)

\* the loop of transform over the texts still to do
RECURSIVE TransformLoop(_, _, _)
TransformLoop(w, todo, records) ==
    IF todo = <<>> THEN [raised |-> FALSE, w |-> w, records |-> records]
    ELSE LET t == Coerce(Head(todo))
             g == grammar_feats(w, t)
         IN  IF g.raised THEN [raised |-> TRUE, w |-> g.w, records |-> records]
             ELSE LET sy == syntactic_feats(g.w, t)
                  IN  IF sy.raised
                      THEN [raised |-> TRUE, w |-> sy.w, records |-> records]
                      ELSE TransformLoop(sy.w, Tail(todo),
                               Append(records, Merge(g.features, sy.features)))

\* pd.DataFrame.from_records(records): the columns are the keys of the
\* records, and there are none when there is no record
FromRecords(records) ==
    [outcome |-> "returned",
     columns |-> IF records = <<>> THEN <<>> ELSE records[1].keys,
     rows    |-> [i \in 1..Len(records) |-> records[i].val]]

\* transform(texts)
transform(w, ts) ==
    LET done == TransformLoop(w, ts, <<>>)
    IN  [w |-> done.w,
         table |-> IF done.raised THEN [outcome |-> "raised"]
                   ELSE FromRecords(done.records)]

InputValues == { NoneValue, IntValue(42), StrValue(<<>>), StrValue(Ex_he_go) }

InputSeqs == UNION { [1..n -> InputValues] : n \in 0..MaxTexts }

InitExtract ==
    /\ CleanIdle
    /\ SubmitIdle
    /\ TrainIdle
    /\ FeatIdle
    /\ engines \in [language_tool : {"ok", "missing", "no_java"},
                    spacy : {"ok", "missing", "no_model"},
                    started : {0}, loaded : {0}]
    /\ extractor = NotConstructed
    /\ texts = <<>>
    /\ table = NotRun
    /\ calls = 0

\* extractor = GrammarFeatureExtractor()
Construct ==
    /\ extractor = NotConstructed
    /\ extractor' = [tool |-> None, nlp |-> None]
    /\ UNCHANGED <<cleanVars, submitVars, trainVars, featVars, engines, texts,
                   table, calls>>

\* extractor.transform(ts)
Transform ==
    /\ extractor # NotConstructed
    /\ calls < MaxCalls
    /\ \E ts \in InputSeqs :
         LET done == transform([self |-> extractor, engines |-> engines], ts)
         IN  /\ extractor' = done.w.self
             /\ engines' = done.w.engines
             /\ texts' = ts
             /\ table' = done.table
    /\ calls' = calls + 1
    /\ UNCHANGED <<cleanVars, submitVars, trainVars, featVars>>

NextExtract == Construct \/ Transform

SpecExtract == InitExtract /\ [][NextExtract]_vars

\* C11: construction initializes no engine; an engine is started by the
\* first call that needs it, its handle is kept, and over any sequence of
\* transform calls each engine is started at most once.
C11_EnginesStartedOnce ==
    /\ engines.started <= 1
    /\ engines.loaded <= 1
    /\ calls = 0 =>
           /\ engines.started = 0 /\ extractor.tool # ToolHandle
           /\ engines.loaded = 0 /\ extractor.nlp # NlpHandle
    /\ extractor.tool = ToolHandle <=> engines.started = 1
    /\ extractor.nlp = NlpHandle <=> engines.loaded = 1
    /\ (table.outcome = "returned" /\ texts # <<>>) =>
           engines.started = 1 /\ engines.loaded = 1

\* two calls, the second over two texts, on engines started once
C11_Witness ==
    /\ calls = 2
    /\ Len(texts) = 2
    /\ table.outcome = "returned"
    /\ engines.started = 1
    /\ engines.loaded = 1

FullKeys ==
    Range(grammar_error_features(<<>>, <<>>).keys)
        \cup Range(syntactic_features(<<>>).keys)

\* C12: with an engine unavailable the extractor can still be constructed,
\* and a transform call over at least one text raises; a table that is
\* returned holds only rows with every feature of both families.
C12_UnavailableEngineRaises ==
    /\ extractor = NotConstructed => ENABLED Construct
    /\ ((engines.language_tool # "ok" \/ engines.spacy # "ok")
            /\ calls > 0 /\ texts # <<>>) => table.outcome = "raised"
    /\ table.outcome = "returned" =>
           \A i \in 1..Len(table.rows) : DOMAIN table.rows[i] = FullKeys

\* the grammar checker is started, the parser is missing, and the call
\* raised
C12_Witness ==
    /\ engines.language_tool = "ok"
    /\ engines.spacy = "missing"
    /\ extractor.tool = ToolHandle
    /\ texts # <<>>
    /\ table.outcome = "raised"

\* the text the features of an input value are those of
ExpectedText(v) ==
    CASE v = NoneValue -> <<>>
      [] v = IntValue(42) -> <<"4", "2">>
      [] OTHER -> v.s

RowOf(t) ==
    syntactic_features(SpacyParse(t)).val
        @@ grammar_error_features(t, LanguageToolCheck(t)).val

\* C17: transform over n inputs returns n rows, row i holding the features
\* of input i; None is taken as the empty string and any other non-string
\* as its string form, and neither makes the call raise.
C17_OneRowPerInput ==
    /\ table.outcome = "returned" =>
           /\ Len(table.rows) = Len(texts)
           /\ \A i \in 1..Len(texts) :
                  table.rows[i] = RowOf(ExpectedText(texts[i]))
    /\ (engines.language_tool = "ok" /\ engines.spacy = "ok" /\ calls > 0) =>
           table.outcome = "returned"

C17_Witness ==
    /\ table.outcome = "returned"
    /\ texts = <<StrValue(Ex_he_go), NoneValue>>
    /\ table.rows[1]["num_tokens"] = 2
    /\ table.rows[2]["num_tokens"] = 0

\* C18: every table transform returns has the same ordered columns, the
\* grammar keys followed by the syntactic keys, whatever the length of the
\* input sequence.
C18_SameColumns ==
    table.outcome = "returned" =>
        table.columns = grammar_error_features(<<>>, <<>>).keys
                            \o syntactic_features(<<>>).keys

(***************************************************************************)
(* The cleaner's counters and its output.                                  *)
(***************************************************************************)
\* C27: the counters account for every token: the raw count is the clean
\* count plus the fillers removed, the false starts trimmed and the
\* repetitions collapsed.
C27_CountersAddUp ==
    passes >= 1 =>
        result.stats.num_tokens_raw
            = result.stats.num_tokens_clean + result.stats.fillers_removed
                + result.stats.false_starts_trimmed
                + result.stats.repetitions_collapsed

\* a transcript that loses a filler, a false start and a repetition
C27_Witness ==
    /\ passes >= 1
    /\ result.stats.fillers_removed > 0
    /\ result.stats.false_starts_trimmed > 0
    /\ result.stats.repetitions_collapsed > 0
    /\ result.stats.num_tokens_clean > 0

\* C28: num_tokens_clean is the number of tokens of the cleaned text and
\* num_tokens_raw the number of tokens of the input, so a transcript of
\* whitespace alone has both counts 0, like the empty transcript.
C28_CountsAgreeWithTexts ==
    passes >= 1 =>
        /\ result.stats.num_tokens_clean = Len(WsTokens(result.text))
        /\ result.stats.num_tokens_raw
               = Len(WsTokens(IF text.none THEN <<>> ELSE text.chars))

\* C29: the cleaned text holds no filler and no two adjacent equal tokens,
\* and a second pass over it returns the same text with nothing removed.
C29_OutputIsClean ==
    /\ passes >= 1 =>
           /\ \A i \in 1..Len(OutTokens) : ~IsFiller(OutTokens[i])
           /\ \A i \in 1..(Len(OutTokens) - 1) : OutTokens[i] # OutTokens[i + 1]
    /\ passes = 2 =>
           /\ again.text = result.text
           /\ again.stats.fillers_removed = 0
           /\ again.stats.false_starts_trimmed = 0
           /\ again.stats.repetitions_collapsed = 0

\* a second pass over a text that the first pass had to clean
C29_Witness ==
    /\ passes = 2
    /\ result.stats.fillers_removed > 0
    /\ result.stats.repetitions_collapsed > 0
    /\ Len(OutTokens) >= 2
    /\ again.text = result.text

\* the positions held out in fold f of the first call
HeldOut(f) == Range(cv.folds[f].val_idx)

\* the positions fold f of the first call is fitted on
TrainedOn(f) == Range(cv.folds[f].train_idx)

\* C21: the held-out sets of the folds of cross_validate_baseline are
\* pairwise disjoint and cover every example, no position occurs twice in
\* an index array, and the training set of every fold is the complement of
\* its held-out set.
C21_FoldsPartition ==
    cv.outcome = "returned" =>
        LET n == Len(X.rows)
            k == Len(cv.folds)
        IN  /\ k = (IF n_splits = 0 THEN n_splits_cv ELSE n_splits)
            /\ \A f, g \in 1..k : f # g => HeldOut(f) \cap HeldOut(g) = {}
            /\ UNION { HeldOut(f) : f \in 1..k } = 1..n
            /\ \A i \in 1..n : Cardinality({ f \in 1..k : i \in HeldOut(f) }) = 1
            /\ \A f \in 1..k :
                   /\ TrainedOn(f) = (1..n) \ HeldOut(f)
                   /\ Cardinality(HeldOut(f)) = Len(cv.folds[f].val_idx)
                   /\ Cardinality(TrainedOn(f)) = Len(cv.folds[f].train_idx)

\* five examples in two or three folds, which cannot be of one size
C21_Witness ==
    /\ cv.outcome = "returned"
    /\ Len(X.rows) = 5
    /\ Len(cv.folds) \in {2, 3}
    /\ \E f, g \in 1..Len(cv.folds) :
           Cardinality(HeldOut(f)) # Cardinality(HeldOut(g))

\* fold f of a returned call is fitted on its training rows and labels and
\* on nothing else, and predicts its held-out rows with what it fitted
FittedOnTrainingRows(call, f) ==
    LET fold == call.folds[f]
    IN  /\ fold.artifacts.scaler.fitted_on = ILoc(X.rows, fold.train_idx)
        /\ fold.artifacts.model.fitted_on = ILoc(X.rows, fold.train_idx)
        /\ fold.artifacts.model.targets = ILoc(y, fold.train_idx)
        /\ fold.artifacts.feature_names = X.columns
        /\ fold.X_val = ILoc(X.rows, fold.val_idx)
        /\ fold.y_pred = PredictRidge(fold.artifacts, fold.X_val)

\* C22: every fold of cross_validate_baseline fits its own standardizer
\* and regressor on that fold's training rows only, the held-out rows are
\* only transformed and predicted, and a call leaves X, y, the fold count
\* and the artifacts trained before as they were.
C22_FoldsIndependent ==
    [][\A call \in {cv', cvAgain'} :
          (call # NotRun /\ (cv' # cv \/ cvAgain' # cvAgain)) =>
              /\ X' = X
              /\ y' = y
              /\ n_splits' = n_splits
              /\ trained' = trained
              /\ call.outcome = "returned" =>
                     \A f \in 1..Len(call.folds) : FittedOnTrainingRows(call, f)]_vars

\* a call after a model was trained, with two folds fitted on different
\* rows and a held-out row that is none of its fold's training rows
C22_Witness ==
    /\ trained.outcome = "fitted"
    /\ cv.outcome = "returned"
    /\ \E f, g \in 1..Len(cv.folds) :
           /\ cv.folds[f].artifacts # cv.folds[g].artifacts
           /\ \E r \in Range(cv.folds[f].X_val) :
                  r \notin Range(cv.folds[f].artifacts.scaler.fitted_on)

\* C23: once train_baseline_model(X, y) has returned, the artifacts'
\* feature_names are the columns of X in their order and the regressor has
\* one coefficient for each of them, and no later cross-validation,
\* coefficient table or prediction changes the stored artifacts.
C23_ArtifactsKeepFeatureNames ==
    [][/\ trained'.outcome = "fitted" =>
            /\ trained'.artifacts.feature_names = X'.columns
            /\ trained'.artifacts.model.n_coef
                   = Len(trained'.artifacts.feature_names)
            /\ Len(coef_(trained'.artifacts))
                   = Len(trained'.artifacts.feature_names)
       /\ trained.outcome = "fitted" => (trained' = trained /\ X' = X)]_vars

\* the artifacts after cross-validation, the coefficient table and a
\* prediction have all been run on them
C23_Witness ==
    /\ trained.outcome = "fitted"
    /\ cv.outcome = "returned"
    /\ importance.outcome = "returned"
    /\ testPred.outcome = "predicted"
    /\ trained.artifacts.feature_names = X.columns

\* C24: compute_feature_importance returns one row for each feature name,
\* every name with the coefficient fitted for it, in non-increasing order
\* of the signed coefficient, so that the most negative one is last.
C24_ImportanceSortedDescending ==
    coefTable.outcome = "returned" =>
        LET rows == coefTable.rows
            n    == Len(modelFile.feature_names)
        IN  /\ Len(rows) = n
            /\ \E at \in [1..n -> 1..n] :
                   /\ \A i, j \in 1..n : i # j => at[i] # at[j]
                   /\ \A i \in 1..n :
                          /\ rows[i].feature = modelFile.feature_names[at[i]]
                          /\ rows[i].coefficient = whole(modelFile.slope[at[i]])
            /\ \A i, j \in 1..n :
                   i < j => rows[i].coefficient.num >= rows[j].coefficient.num
            /\ \A j \in 1..n :
                   rows[n].coefficient.num <= modelFile.slope[j]

\* a table whose rows are in another order than the feature names, with a
\* negative coefficient in its last row
C24_Witness ==
    /\ coefTable.outcome = "returned"
    /\ Len(coefTable.rows) = 3
    /\ \E i \in 1..3 : coefTable.rows[i].feature # modelFile.feature_names[i]
    /\ coefTable.rows[3].coefficient.num < 0
    /\ coefTable.rows[1].coefficient.num > coefTable.rows[2].coefficient.num

(***************************************************************************)
(* Score bands: score_band of src/src/evaluation.py.  A score is a         *)
(* fraction [num, den] in lowest terms, given in hundredths.               *)
(***************************************************************************)
MaxHundredths == 600

\* a <= b and a < b for two fractions with positive denominators
Leq(a, b) == a.num * b.den <= b.num * a.den

Less(a, b) == a.num * b.den < b.num * a.den

\* a banding whose lower threshold belongs to the middle band
score_band_open(x) ==
    IF Less(x, Div(5, 2)) THEN "low"
    ELSE IF Less(x, Div(4, 1)) THEN "medium"
    ELSE "high"

\* score_band(x), lines 53-57
score_band(x) ==
    IF Leq(x, Div(5, 2)) THEN "low"
    ELSE IF Less(x, Div(4, 1)) THEN "medium"
    ELSE "high"

Scores == { Div(h, 100) : h \in (0 - MaxHundredths)..MaxHundredths }

InitBands ==
    /\ CleanIdle
    /\ SubmitIdle
    /\ TrainIdle
    /\ ExtractIdle
    /\ probe \in { [kind |-> "score", x |-> x] : x \in Scores }
    /\ computed = NotRun

\* df["y_true"].apply(score_band), for one value
ScoreBand ==
    /\ probe.kind = "score"
    /\ computed = NotRun
    /\ computed' = [outcome |-> "computed", band |-> score_band(probe.x)]
    /\ UNCHANGED <<cleanVars, submitVars, trainVars, extractVars, probe>>

NextBands == ScoreBand

SpecBands == InitBands /\ [][NextBands]_vars

\* the place of a band in the order low, medium, high
BandRank(b) == CASE b = "low" -> 1 [] b = "medium" -> 2 [] b = "high" -> 3

\* C25: score_band returns "low" exactly for x <= 2.5, "medium" exactly for
\* 2.5 < x < 4.0 and "high" exactly for x >= 4.0, so a score has one band, a
\* larger score never has a lower band, and 2.5 is low, 2.51 and 3.99 are
\* medium and 4.0 is high.
C25_BandsByThreshold ==
    computed.outcome = "computed" =>
        LET x == probe.x
            b == computed.band
        IN  /\ b \in {"low", "medium", "high"}
            /\ b = "low" <=> 2 * x.num <= 5 * x.den
            /\ b = "medium" <=> (2 * x.num > 5 * x.den /\ x.num < 4 * x.den)
            /\ b = "high" <=> x.num >= 4 * x.den
            /\ \A z \in Scores :
                   z.num * x.den <= x.num * z.den =>
                       BandRank(score_band(z)) <= BandRank(b)
            /\ x = [num |-> 5, den |-> 2] => b = "low"
            /\ x = [num |-> 251, den |-> 100] => b = "medium"
            /\ x = [num |-> 399, den |-> 100] => b = "medium"
            /\ x = [num |-> 4, den |-> 1] => b = "high"

\* the band of 2.5 has been computed
C25_Witness ==
    /\ computed.outcome = "computed"
    /\ probe.x = [num |-> 5, den |-> 2]
    /\ computed.band = "low"

\* the last transcribe_split call transcribed: it did not use the cache
Fresh == asrCall.outcome = "returned" /\ ~(asrCall.cached /\ ~asrCall.overwrite)

\* the paths of the last call that Whisper transcribed, and those it
\* failed on
Succeeded == { f \in asrCall.audio_paths : asrCall.whisper[f].ok }

Failed == { f \in asrCall.audio_paths : ~asrCall.whisper[f].ok }

\* a transcribing call returns one row for each path; the row of a failed
\* path has an error and no transcript, the row of another path no error
RowsFollowOutcomes ==
    Fresh =>
        /\ Len(asrCall.df) = Cardinality(asrCall.audio_paths)
        /\ \A f \in asrCall.audio_paths :
               Cardinality({ i \in 1..Len(asrCall.df) :
                               asrCall.df[i].filename = f }) = 1
        /\ \A i \in 1..Len(asrCall.df) :
               IF asrCall.df[i].filename \in Failed
               THEN /\ asrCall.df[i].error.s # <<>>
                    /\ asrCall.df[i].transcript.s = <<>>
               ELSE asrCall.df[i].error.s = <<>>

\* C26: a file that fails does not end the batch: transcribe_split returns
\* one row for each path, with an error and no transcript where the file
\* failed and no error where it did not, and the numbers of successful and
\* failed files that train_baseline prints after transcribing are the
\* numbers of files that succeeded and that failed.
C26_FailuresCounted ==
    /\ RowsFollowOutcomes
    /\ (asrReport.outcome # "none" /\ asrReport.printed
            /\ asrReport.call = asrCall.n) =>
           /\ asrReport.successful = Cardinality(Succeeded)
           /\ asrReport.failed = Cardinality(Failed)

\* C30: with a cache and overwrite false the cached table is returned,
\* nothing is transcribed and the cache stays as it is; otherwise the
\* given paths are transcribed once each in sorted order and the result
\* becomes the cache; so a cache exists after a completed call, and a call
\* with overwrite false that follows it returns the cached table.
C30_CacheProtocol ==
    [][(asrCall'.n = asrCall.n + 1 /\ asrReport' = asrReport) =>
          /\ (asrCall'.cached /\ ~asrCall'.overwrite) =>
                 /\ asrCall'.outcome = "returned"
                 /\ asrCall'.df = ReadCsv(trainCache)
                 /\ asrCall'.transcribed = <<>>
                 /\ trainCache' = trainCache
          /\ ~(asrCall'.cached /\ ~asrCall'.overwrite) =>
                 /\ asrCall'.outcome = "returned"
                 /\ asrCall'.transcribed = Sorted(asrCall'.audio_paths)
                 /\ trainCache' = [exists |-> TRUE, rows |-> asrCall'.df]
          /\ asrCall'.outcome = "returned" => trainCache'.exists
          /\ (asrCall.outcome = "returned" /\ ~asrCall'.overwrite) =>
                 /\ asrCall'.outcome = "returned"
                 /\ asrCall'.df = ReadCsv(trainCache)]_vars

====
